---- MODULE Spec2Model ----
(***************************************************************************)
(* Model of the bot core: the tiered MemoryManager (HOT = RAMProvider,     *)
(* WARM = CosmosProvider, COLD = BlobProvider), the orchestrator           *)
(* BotBrain.think with its provider failover, and the confidence           *)
(* heuristic.                                                              *)
(*                                                                         *)
(* Texts that the code takes apart (user ids, storage keys, blob names)    *)
(* are sequences of one-character strings, so that a prefix scan is a      *)
(* prefix scan.  Confidence values are integers in hundredths.             *)
(***************************************************************************)
EXTENDS Integers, Sequences, FiniteSets, TLC

VARIABLES
    now,            \* wall clock at the resolution the HOT TTL is counted in
    seq,            \* the same clock at full resolution: one reading per save
    warm,           \* WARM tier: "absent" | "down" | "up"
    cold,           \* COLD tier: "absent" | "down" | "up"
    hot_storage,    \* RAMProvider.storage: user_id -> deque of items
    hot_timestamps, \* RAMProvider.timestamps: key -> time of the save
    warm_docs,      \* documents of the Cosmos container
    cold_blobs,     \* blobs of the archive container: name -> content
    lastSave,       \* what the last save_conversation call did
    lastGet,        \* what the last get_conversation_history call did
    primary_provider,   \* BotBrain.primary_provider: "none" | "ready"
    fallback_provider,  \* BotBrain.fallback_provider: "none" | "ready"
    last_provider_used, \* BotBrain._last_provider_used
    lastThink,      \* what the last BotBrain.think call did and returned
    lastReply,      \* what the last /v1/messages request was answered with
    response,       \* the response text handed to _calculate_confidence
    confidence,     \* the confidence computed for it
    generating,     \* the provider generate call in flight, under its retry
    saves,          \* the save_conversation calls in flight, concurrently
    hot_appends,    \* the items appended to each user's HOT deque, in order
    pattern_cache,  \* PatternDetector.pattern_cache: user_id -> patterns
    lastDetect,     \* what the last detect_patterns call was given and returned
    firstDetect,    \* the same for the first call made in the behaviour
    satisfaction_score, \* UserProfile.satisfaction_score of each user, in tenths
    lastContext,    \* what the last get_user_context call returned
    lastStats,      \* what the last get_storage_stats call returned
    lastLoad,       \* what the last provider load call returned
    inflight,       \* the think calls in flight, concurrently
    lastPrompt,     \* the prior-turns section of the last prompt built
    lastSignal      \* the last satisfaction update: message, score before and after

memvars == <<now, seq, warm, cold, hot_storage, hot_timestamps, warm_docs,
             cold_blobs, lastSave, lastGet>>

brainvars == <<primary_provider, fallback_provider, last_provider_used,
               lastThink, lastReply>>

confvars == <<response, confidence>>

llmvars == <<generating>>

concvars == <<saves, hot_appends>>

patvars == <<pattern_cache, lastDetect, firstDetect>>

opvars == <<satisfaction_score, lastContext, lastStats, lastLoad, inflight,
            lastPrompt, lastSignal>>

auxvars == <<llmvars, concvars, patvars, opvars>>

vars == <<memvars, brainvars, confvars, auxvars>>

----------------------------------------------------------------------------
(* Bounds of the exploration *)

MaxSaves == 2      \* turns saved in one behaviour
MaxClock == 1      \* ticks of the coarse clock
Limits == 0..2     \* values of the limit argument
HotMaxItems == 1   \* RAMProvider.max_items
HotTtl == 0        \* RAMProvider.ttl_seconds in ticks: an item is expired
                   \* once the clock is more than HotTtl ticks past its save

(* Program constants *)

SweepEvery == 10
ColdThreshold == 80
DefaultImportance == 50

None == "None"

UserA == <<"a">>
UserAB == <<"a", "/", "b">>
Users == {UserA, UserAB}
Messages == {"oi"}
Confidences == {50, 90}
TimeRanges == {None, "range"}

----------------------------------------------------------------------------
(* Generic helpers on sequences *)

Take(s, n) == SubSeq(s, 1, IF n < Len(s) THEN (IF n < 0 THEN 0 ELSE n) ELSE Len(s))

Reverse(s) == [i \in 1..Len(s) |-> s[Len(s) + 1 - i]]

StartsWith(s, p) == Len(p) <= Len(s) /\ SubSeq(s, 1, Len(p)) = p

SelectData(s, Keep(_)) ==
    LET F[i \in 0..Len(s)] ==
            IF i = 0 THEN <<>>
            ELSE IF Keep(s[i]) THEN Append(F[i - 1], s[i]) ELSE F[i - 1]
    IN F[Len(s)]

MetaGet(meta, k, default) == IF k \in DOMAIN meta THEN meta[k] ELSE default

(* Character order of the texts used in blob names *)
AlphabetOrder == <<".json.gz", "/", "0", "1", "2", "3", "4", "5", "6", "7", "8", "9", ":", "a", "b">>

Ord(c) == CHOOSE i \in 1..Len(AlphabetOrder) : AlphabetOrder[i] = c

RECURSIVE TextLess(_, _)
TextLess(s, t) ==
    IF t = <<>> THEN FALSE
    ELSE IF s = <<>> THEN TRUE
    ELSE IF Head(s) = Head(t) THEN TextLess(Tail(s), Tail(t))
    ELSE Ord(Head(s)) < Ord(Head(t))

----------------------------------------------------------------------------
(* RAMProvider: the HOT tier *)

CleanupExpired(ts, t) ==
    [k \in {k \in DOMAIN ts : ~(t - ts[k] > HotTtl)} |-> ts[k]]

(* a full buffer that turns the new item away instead of its oldest one *)
RamSaveDropNewest(storage, timestamps, key, data, t) ==
    LET u == data.user_id
        item == [key |-> key, data |-> data, timestamp |-> t]
        existing == IF u \in DOMAIN storage THEN storage[u] ELSE <<>>
        bounded == IF Len(existing) >= HotMaxItems THEN existing
                   ELSE Append(existing, item)
    IN [storage |-> [k \in DOMAIN storage \cup {u} |->
                        IF k = u THEN bounded ELSE storage[k]],
        timestamps |-> timestamps, ok |-> TRUE]

(* a buffer without a maximum length *)
RamSaveUnbounded(storage, timestamps, key, data, t) ==
    LET u == data.user_id
        item == [key |-> key, data |-> data, timestamp |-> t]
        existing == IF u \in DOMAIN storage THEN storage[u] ELSE <<>>
    IN [storage |-> [k \in DOMAIN storage \cup {u} |->
                        IF k = u THEN Append(existing, item) ELSE storage[k]],
        timestamps |-> timestamps, ok |-> TRUE]

RamSave(storage, timestamps, key, data, t) ==
    LET u == data.user_id
        item == [key |-> key, data |-> data, timestamp |-> t]
        existing == IF u \in DOMAIN storage THEN storage[u] ELSE <<>>
        appended == Append(existing, item)
        bounded == IF Len(appended) > HotMaxItems THEN Tail(appended) ELSE appended
        ts1 == [k \in DOMAIN timestamps \cup {key} |->
                    IF k = key THEN t ELSE timestamps[k]]
        ts2 == IF Cardinality(DOMAIN ts1) % SweepEvery = 0
               THEN CleanupExpired(ts1, t) ELSE ts1
    IN [storage |-> [k \in DOMAIN storage \cup {u} |->
                        IF k = u THEN bounded ELSE storage[k]],
        timestamps |-> ts2, ok |-> TRUE]

(* a search that returns the newest items whatever their age *)
RamSearchNoTtl(storage, u, limit, t) ==
    IF u \notin DOMAIN storage THEN <<>>
    ELSE LET items == Reverse(storage[u])
             firstN == Take(items, limit)
         IN [i \in 1..Len(firstN) |-> firstN[i].data]

RamSearchStrictTtl(storage, u, limit, t) ==
    IF u \notin DOMAIN storage THEN <<>>
    ELSE LET items == Reverse(storage[u])
             firstN == Take(items, limit)
             valid == SelectData(firstN, LAMBDA it : t - it.timestamp < HotTtl)
         IN [i \in 1..Len(valid) |-> valid[i].data]

RamSearch(storage, u, limit, t) ==
    IF u \notin DOMAIN storage THEN <<>>
    ELSE LET items == Reverse(storage[u])
             firstN == Take(items, limit)
             valid == SelectData(firstN, LAMBDA it : t - it.timestamp <= HotTtl)
         IN [i \in 1..Len(valid) |-> valid[i].data]

----------------------------------------------------------------------------
(* CosmosProvider: the WARM tier *)

Truthy(u) == u # <<>>

Unknown == <<"u", "n", "k", "n", "o", "w", "n">>

CosmosDocument(key, data) ==
    [key |-> key,
     userId |-> IF Truthy(data.user_id) THEN data.user_id ELSE Unknown,
     type |-> "conversation",
     timestamp |-> data.timestamp,
     message |-> data.message,
     response |-> data.response,
     metadata |-> data.metadata]

CosmosSave(docs, status, key, data) ==
    IF status # "up" THEN [docs |-> docs, ok |-> FALSE]
    ELSE [docs |-> docs \cup {CosmosDocument(key, data)}, ok |-> TRUE]

RECURSIVE OrderByTimestampDesc(_)
OrderByTimestampDesc(S) ==
    IF S = {} THEN <<>>
    ELSE LET d == CHOOSE x \in S : \A y \in S : y.timestamp.fine <= x.timestamp.fine
         IN <<d>> \o OrderByTimestampDesc(S \ {d})

CosmosProjection(d) ==
    [key |-> d.key, userId |-> d.userId, message |-> d.message,
     response |-> d.response, timestamp |-> d.timestamp, metadata |-> d.metadata]

CosmosSearch(docs, status, u, limit) ==
    IF status # "up" THEN <<>>
    ELSE LET matching == {d \in docs : d.type = "conversation"
                                        /\ (Truthy(u) => d.userId = u)}
             ordered == OrderByTimestampDesc(matching)
             top == Take(ordered, limit)
         IN [i \in 1..Len(top) |-> CosmosProjection(top[i])]

----------------------------------------------------------------------------
(* BlobProvider: the COLD tier *)

GzipJson(data) == [gz |-> data]

GunzipJson(content) == content.gz

BlobName(key, data) ==
    data.user_id \o <<"/", ToString(data.timestamp.coarse), "/">> \o key \o <<".json.gz">>

BlobSave(blobs, status, key, data) ==
    IF status # "up" THEN [blobs |-> blobs, ok |-> FALSE]
    ELSE LET name == BlobName(key, data)
         IN [blobs |-> [n \in DOMAIN blobs \cup {name} |->
                           IF n = name THEN GzipJson(data) ELSE blobs[n]],
             ok |-> TRUE]

RECURSIVE ListBlobs(_)
ListBlobs(names) ==
    IF names = {} THEN <<>>
    ELSE LET n == CHOOSE x \in names : \A y \in names : y = x \/ TextLess(x, y)
         IN <<n>> \o ListBlobs(names \ {n})

BlobSearch(blobs, status, u, limit) ==
    IF status # "up" THEN <<>>
    ELSE LET prefix == u \o <<"/">>
             listed == ListBlobs({n \in DOMAIN blobs : StartsWith(n, prefix)})
             taken == Take(listed, limit)
         IN [i \in 1..Len(taken) |-> GunzipJson(blobs[taken[i]])]

----------------------------------------------------------------------------
(* MemoryManager *)

StorageKey(u, stamp) == u \o <<":", ToString(stamp)>>

ConversationData(u, m, r, meta) ==
    [user_id |-> u, message |-> m, response |-> r,
     timestamp |-> [coarse |-> now, fine |-> seq], metadata |-> meta]

(* an archiving test that also takes the threshold itself *)
ImportantInclusive(importance) == importance >= ColdThreshold

Important(importance) == importance > ColdThreshold

ManagerSave(u, m, r, meta) ==
    LET data == ConversationData(u, m, r, meta)
        key == StorageKey(u, seq)
        hot == RamSave(hot_storage, hot_timestamps, key, data, now)
        warmCalled == warm # "absent"
        w == IF warmCalled THEN CosmosSave(warm_docs, warm, key, data)
             ELSE [docs |-> warm_docs, ok |-> FALSE]
        importance == MetaGet(meta, "confidence", DefaultImportance)
        coldCalled == Important(importance) /\ cold # "absent"
        c == IF coldCalled THEN BlobSave(cold_blobs, cold, key, data)
             ELSE [blobs |-> cold_blobs, ok |-> FALSE]
        counted == {"HOT"} \cup (IF warmCalled THEN {"WARM"} ELSE {})
    IN [hot_storage |-> hot.storage,
        hot_timestamps |-> hot.timestamps,
        warm_docs |-> w.docs,
        cold_blobs |-> c.blobs,
        data |-> data,
        called |-> {"HOT"} \cup (IF warmCalled THEN {"WARM"} ELSE {})
                           \cup (IF coldCalled THEN {"COLD"} ELSE {}),
        counted |-> counted,
        stored |-> (IF hot.ok THEN {"HOT"} ELSE {})
                   \cup (IF w.ok THEN {"WARM"} ELSE {})
                   \cup (IF c.ok THEN {"COLD"} ELSE {}),
        raised |-> FALSE,
        saved |-> counted # {}]

(* the merged list left in tier order *)
TierOrderKept(s) == s

RECURSIVE SortByTimestampDesc(_)
SortByTimestampDesc(s) ==
    IF s = <<>> THEN <<>>
    ELSE LET rest == SortByTimestampDesc(Tail(s))
             h == Head(s)
             before == SelectData(rest, LAMBDA x : x.timestamp.fine > h.timestamp.fine)
             after == SelectData(rest, LAMBDA x : ~(x.timestamp.fine > h.timestamp.fine))
         IN before \o <<h>> \o after

GetConversationHistoryEager(u, limit, time_range) ==
    LET hotR == RamSearch(hot_storage, u, limit, now)
        askWarm == warm # "absent"
        warmR == IF askWarm THEN CosmosSearch(warm_docs, warm, u, limit) ELSE <<>>
        askCold == cold # "absent" /\ time_range # None
        coldR == IF askCold THEN BlobSearch(cold_blobs, cold, u, limit) ELSE <<>>
        results == hotR \o warmR \o coldR
    IN [results |-> Take(SortByTimestampDesc(results), limit),
        queried |-> <<"HOT">> \o (IF askWarm THEN <<"WARM">> ELSE <<>>)
                              \o (IF askCold THEN <<"COLD">> ELSE <<>>),
        found |-> [HOT |-> Len(hotR), WARM |-> Len(warmR), COLD |-> Len(coldR)]]

GetConversationHistory(u, limit, time_range) ==
    LET askHot == limit > 0
        hotR == IF askHot THEN RamSearch(hot_storage, u, limit, now) ELSE <<>>
        needed1 == limit - Len(hotR)
        askWarm == warm # "absent" /\ needed1 > 0
        warmR == IF askWarm THEN CosmosSearch(warm_docs, warm, u, needed1) ELSE <<>>
        needed2 == needed1 - Len(warmR)
        askCold == cold # "absent" /\ needed2 > 0 /\ time_range # None
        coldR == IF askCold THEN BlobSearch(cold_blobs, cold, u, needed2) ELSE <<>>
        results == hotR \o warmR \o coldR
    IN [results |-> Take(SortByTimestampDesc(results), limit),
        queried |-> (IF askHot THEN <<"HOT">> ELSE <<>>)
                    \o (IF askWarm THEN <<"WARM">> ELSE <<>>)
                    \o (IF askCold THEN <<"COLD">> ELSE <<>>),
        found |-> [HOT |-> Len(hotR), WARM |-> Len(warmR), COLD |-> Len(coldR)]]

----------------------------------------------------------------------------
(* Initial state and actions of the memory manager *)

(* the memory manager after start-up, stores empty, orchestrator not in use *)
InitMem ==
    /\ now = 0
    /\ seq = 1
    /\ warm \in {"absent", "down", "up"}
    /\ cold \in {"absent", "down", "up"}
    /\ hot_storage = <<>>
    /\ hot_timestamps = <<>>
    /\ warm_docs = {}
    /\ cold_blobs = <<>>
    /\ lastSave = <<>>
    /\ lastGet = <<>>
    /\ primary_provider = "none"
    /\ fallback_provider = "none"
    /\ last_provider_used = None
    /\ lastThink = <<>>
    /\ lastReply = <<>>
    /\ response = <<>>
    /\ confidence = <<>>
    /\ generating = <<>>
    /\ saves = <<>>
    /\ hot_appends = <<>>
    /\ pattern_cache = <<>>
    /\ lastDetect = <<>>
    /\ firstDetect = <<>>
    /\ satisfaction_score = <<>>
    /\ lastContext = <<>>
    /\ lastStats = <<>>
    /\ lastLoad = <<>>
    /\ inflight = <<>>
    /\ lastPrompt = <<>>
    /\ lastSignal = <<>>

Metas == {[confidence |-> c] : c \in Confidences}

SaveConversation(u, m, r, meta) ==
    /\ seq <= MaxSaves
    /\ LET s == ManagerSave(u, m, r, meta)
       IN /\ hot_storage' = s.hot_storage
          /\ hot_timestamps' = s.hot_timestamps
          /\ warm_docs' = s.warm_docs
          /\ cold_blobs' = s.cold_blobs
          /\ lastSave' = <<[user |-> u, data |-> s.data, called |-> s.called,
                           counted |-> s.counted, stored |-> s.stored,
                           raised |-> s.raised, saved |-> s.saved, fresh |-> TRUE]>>
    /\ seq' = seq + 1
    /\ lastGet' = <<>>
    /\ UNCHANGED <<now, warm, cold, brainvars, confvars, auxvars>>

GetHistory(u, limit, time_range) ==
    /\ LET g == GetConversationHistory(u, limit, time_range)
       IN lastGet' = <<[user |-> u, limit |-> limit, time_range |-> time_range,
                        results |-> g.results, queried |-> g.queried, found |-> g.found,
                        afterSave |-> IF lastSave # <<>> /\ lastSave[1].fresh
                                      THEN <<lastSave[1].data>> ELSE <<>>]>>
    /\ UNCHANGED <<now, seq, warm, cold, hot_storage, hot_timestamps, warm_docs,
                   cold_blobs, lastSave, brainvars, confvars, auxvars>>

Tick ==
    /\ now < MaxClock
    /\ now' = now + 1
    /\ lastSave' = IF lastSave = <<>> THEN <<>> ELSE <<[lastSave[1] EXCEPT !.fresh = FALSE]>>
    /\ lastGet' = <<>>
    /\ UNCHANGED <<seq, warm, cold, hot_storage, hot_timestamps, warm_docs, cold_blobs,
                   brainvars, confvars, auxvars>>

NextMem ==
    \/ \E u \in Users, m \in Messages, meta \in Metas : SaveConversation(u, m, "r", meta)
    \/ \E u \in Users, limit \in Limits, tr \in TimeRanges : GetHistory(u, limit, tr)
    \/ Tick

SpecMem == InitMem /\ [][NextMem]_vars

(* Saves alone, over every kind of metadata: below, at and above the archiving
   threshold, and without a confidence *)
ArchiveMetas ==
    {[confidence |-> c] : c \in {50, 80, 81, 90}} \cup {[channel |-> "http"]}

NextArchive ==
    \E u \in Users, m \in Messages, meta \in ArchiveMetas :
        SaveConversation(u, m, "r", meta)

SpecArchive == InitMem /\ [][NextArchive]_vars

----------------------------------------------------------------------------
(* Response texts.  A text is modelled by what the orchestrator looks at:
   its length and which of the phrases it searches for occur in it.  The
   field question says that a "?" occurs in the text, ends_question that the
   text ends with one. *)

Text(len, marker, contextual, hedging, question) ==
    [len |-> len, marker |-> marker, contextual |-> contextual,
     hedging |-> hedging, question |-> question, ends_question |-> question]

StaticResponse == Text(110, TRUE, FALSE, FALSE, FALSE)

ThinkApology == Text(81, TRUE, FALSE, FALSE, FALSE)

HandlerApology == Text(80, FALSE, FALSE, FALSE, FALSE)

Lengths == {0, 1, 7, 9, 10, 11, 50, 100, 101, 150}

(* shortest text that can hold the phrases: "dificuldades técnicas" 21,
   "conforme" 8, "não sei" 7, "?" 1 *)
MinLen(marker, contextual, hedging, question) ==
    (IF marker THEN 21 ELSE 0) + (IF contextual THEN 8 ELSE 0)
    + (IF hedging THEN 7 ELSE 0) + (IF question THEN 1 ELSE 0)

AllTexts ==
    {t \in [len : Lengths, marker : BOOLEAN, contextual : BOOLEAN,
            hedging : BOOLEAN, question : BOOLEAN, ends_question : BOOLEAN] :
        /\ t.len >= MinLen(t.marker, t.contextual, t.hedging, t.question)
        /\ t.ends_question => t.question
        /\ (t.question /\ ~t.ends_question) =>
               t.len > MinLen(t.marker, t.contextual, t.hedging, t.question)}

Max(a, b) == IF a >= b THEN a ELSE b

Min(a, b) == IF a <= b THEN a ELSE b

(* confidences are counted in hundredths *)
CalculateConfidenceUnclamped(r) ==
    LET c0 == IF r.marker THEN 20
              ELSE IF r.len < 10 THEN 70 - 20
              ELSE IF r.len > 100 THEN 70 + 10
              ELSE 70
        c1 == IF r.contextual THEN c0 + 10 ELSE c0
        c2 == IF r.hedging THEN c1 - 30 ELSE c1
        c3 == IF r.question THEN c2 - 10 ELSE c2
    IN c3

CalculateConfidence(r) ==
    LET c0 == IF r.marker THEN 20
              ELSE IF r.len < 10 THEN 70 - 20
              ELSE IF r.len > 100 THEN 70 + 10
              ELSE 70
        c1 == IF r.contextual THEN c0 + 10 ELSE c0
        c2 == IF r.hedging THEN c1 - 30 ELSE c1
        c3 == IF r.question THEN c2 - 10 ELSE c2
    IN Max(10, Min(99, c3))

InitConf ==
    /\ now = 0
    /\ seq = 1
    /\ warm = "absent"
    /\ cold = "absent"
    /\ hot_storage = <<>>
    /\ hot_timestamps = <<>>
    /\ warm_docs = {}
    /\ cold_blobs = <<>>
    /\ lastSave = <<>>
    /\ lastGet = <<>>
    /\ primary_provider = "none"
    /\ fallback_provider = "none"
    /\ last_provider_used = None
    /\ lastThink = <<>>
    /\ lastReply = <<>>
    /\ response \in {<<t>> : t \in AllTexts}
    /\ confidence = <<>>
    /\ generating = <<>>
    /\ saves = <<>>
    /\ hot_appends = <<>>
    /\ pattern_cache = <<>>
    /\ lastDetect = <<>>
    /\ firstDetect = <<>>
    /\ satisfaction_score = <<>>
    /\ lastContext = <<>>
    /\ lastStats = <<>>
    /\ lastLoad = <<>>
    /\ inflight = <<>>
    /\ lastPrompt = <<>>
    /\ lastSignal = <<>>

Calculate ==
    /\ response # <<>>
    /\ confidence = <<>>
    /\ confidence' = <<CalculateConfidence(response[1])>>
    /\ UNCHANGED <<response, memvars, brainvars, auxvars>>

NextText ==
    /\ confidence # <<>>
    /\ \E t \in AllTexts : response' = <<t>>
    /\ confidence' = <<>>
    /\ UNCHANGED <<memvars, brainvars, auxvars>>

NextConf == Calculate \/ NextText

SpecConf == InitConf /\ [][NextConf]_vars

----------------------------------------------------------------------------
(* BotBrain: the orchestrator *)

HistoryLimit == 5

ProviderMethods == {"generate", "get_embedding", "is_available"}

MemoryManagerMethods ==
    {"save_conversation", "get_conversation_history", "get_user_context",
     "archive_old_data", "optimize_storage", "get_storage_stats"}

AppComponents ==
    {"settings", "memory_manager", "learning_system", "retrieval_system",
     "personality_loader", "skill_registry", "router", "response_builder",
     "context_engine", "brain"}

Channels == {"http"}

Raised == [raised |-> TRUE, value |-> <<>>]

Returned(v) == [raised |-> FALSE, value |-> <<v>>]

EmptyText == Text(0, FALSE, FALSE, FALSE, FALSE)

AnswerText == Text(150, FALSE, TRUE, FALSE, FALSE)

(* what the provider's backing service would do with a request *)
BackendOutcomes == {Raised, Returned(EmptyText), Returned(AnswerText)}

(* a call of a method the provider class does not define raises AttributeError *)
CallProvider(method, backend) ==
    IF method \in ProviderMethods THEN backend ELSE Raised

TruthyText(v) == v # <<>> /\ v[1].len > 0

Attempt(provider, call) ==
    [provider |-> provider,
     status |-> IF call.raised THEN "failed" ELSE "success",
     value |-> call.value]

(* _generate_response, given what the two provider calls do when made *)
GenerateResponseUnchecked(pCall, fCall) ==
    LET r1 == IF ~pCall.raised THEN pCall.value ELSE <<>>
        tryF == ~TruthyText(r1)
        r2 == IF tryF /\ ~fCall.raised THEN fCall.value ELSE r1
        static == ~TruthyText(r2)
    IN [response |-> IF static THEN StaticResponse ELSE r2[1],
        provider_used |-> IF static THEN "static"
                          ELSE IF tryF /\ ~fCall.raised THEN "fallback" ELSE "primary",
        attempts |-> <<Attempt("primary", pCall)>>
                     \o (IF tryF THEN <<Attempt("fallback", fCall)>> ELSE <<>>)
                     \o (IF static THEN <<[provider |-> "static", status |-> "success",
                                           value |-> <<StaticResponse>>]>> ELSE <<>>)]

GenerateResponse(pCall, fCall) ==
    LET tryP == primary_provider = "ready"
        r1 == IF tryP /\ ~pCall.raised THEN pCall.value ELSE <<>>
        used1 == IF tryP /\ ~pCall.raised THEN "primary" ELSE None
        tryF == ~TruthyText(r1) /\ fallback_provider = "ready"
        r2 == IF tryF /\ ~fCall.raised THEN fCall.value ELSE r1
        used2 == IF tryF /\ ~fCall.raised THEN "fallback" ELSE used1
        static == ~TruthyText(r2)
    IN [response |-> IF static THEN StaticResponse ELSE r2[1],
        provider_used |-> IF static THEN "static" ELSE used2,
        attempts |-> (IF tryP THEN <<Attempt("primary", pCall)>> ELSE <<>>)
                     \o (IF tryF THEN <<Attempt("fallback", fCall)>> ELSE <<>>)
                     \o (IF static THEN <<[provider |-> "static", status |-> "success",
                                           value |-> <<StaticResponse>>]>> ELSE <<>>)]

(* the learning engine the orchestrator calls: each call returns or raises *)
LearningCalls ==
    {"get_or_create_profile", "record_interaction", "detect_patterns", "record_response"}

LearningCall(name, failAt) == [raised |-> name = failAt]

BuildContext(u) ==
    LET history == GetConversationHistory(u, HistoryLimit, None).results
    IN IF history # <<>> THEN [conversation_history |-> history] ELSE <<>>

Unchanged ==
    [hot_storage |-> hot_storage, hot_timestamps |-> hot_timestamps,
     warm_docs |-> warm_docs, cold_blobs |-> cold_blobs, persisted |-> FALSE]

(* _store_interaction: whatever the memory manager call raises is swallowed *)
StoreInteraction(u, m, r, conf) ==
    IF "store_conversation" \in MemoryManagerMethods
    THEN LET sv == ManagerSave(u, m, r, [confidence |-> conf,
                                         provider |-> last_provider_used])
         IN [hot_storage |-> sv.hot_storage, hot_timestamps |-> sv.hot_timestamps,
             warm_docs |-> sv.warm_docs, cold_blobs |-> sv.cold_blobs,
             persisted |-> TRUE]
    ELSE Unchanged

ErrorResult(u, ch) ==
    [response |-> ThinkApology,
     metadata |-> [user_id |-> u, channel |-> ch, error |-> TRUE,
                   error_type |-> "Exception"]]

(* the body of think's try block *)
ThinkBody(u, m, ch, failAt, pBackend, fBackend) ==
    LET early == \/ LearningCall("get_or_create_profile", failAt).raised
                 \/ LearningCall("record_interaction", failAt).raised
                 \/ LearningCall("detect_patterns", failAt).raised
        late == LearningCall("record_response", failAt).raised
        Outcome(context, gen, conf, store) ==
            IF early
            THEN [exception |-> TRUE, generated |-> <<>>, store |-> Unchanged,
                  result |-> <<>>, steps |-> <<>>]
            ELSE IF late
            THEN [exception |-> TRUE, generated |-> <<gen>>, store |-> Unchanged,
                  result |-> <<>>, steps |-> <<"generate">>]
            ELSE [exception |-> FALSE, generated |-> <<gen>>, store |-> store,
                  steps |-> <<"generate", "confidence">>
                            \o (IF store.persisted THEN <<"persist">> ELSE <<>>),
                  result |-> [response |-> gen.response,
                              metadata |-> [user_id |-> u, channel |-> ch,
                                            processing_time |-> "elapsed",
                                            confidence |-> conf,
                                            provider |-> MetaGet(context, "provider_used", "unknown"),
                                            memory_context |-> "conversation_history" \in DOMAIN context,
                                            personalization |-> "profile"]]]
        Store(context, gen, conf) ==
            Outcome(context, gen, conf, StoreInteraction(u, m, gen.response, conf))
        Confidence(context, gen) ==
            Store(context, gen, CalculateConfidence(gen.response))
    IN Confidence(BuildContext(u),
                  GenerateResponse(CallProvider("generate_response", pBackend),
                                   CallProvider("generate_response", fBackend)))

ThinkUnguarded(u, m, ch, failAt, pBackend, fBackend) ==
    LET Propagate(b) ==
            [raised |-> b.exception, generated |-> b.generated, store |-> b.store,
             steps |-> b.steps, result |-> b.result]
    IN Propagate(ThinkBody(u, m, ch, failAt, pBackend, fBackend))

ThinkCall(u, m, ch, failAt, pBackend, fBackend) ==
    LET Except(b) ==
            [raised |-> FALSE, generated |-> b.generated, store |-> b.store,
             steps |-> b.steps,
             result |-> IF b.exception THEN ErrorResult(u, ch) ELSE b.result]
    IN Except(ThinkBody(u, m, ch, failAt, pBackend, fBackend))

ThinkRecord(u, m, ch, failAt, pBackend, fBackend, t) ==
    [user |-> u, message |-> m, channel |-> ch, failAt |-> failAt,
     pBackend |-> pBackend, fBackend |-> fBackend,
     raised |-> t.raised, generated |-> t.generated, steps |-> t.steps,
     persisted |-> t.store.persisted, result |-> t.result]

ThinkEffects(u, m, ch, failAt, pBackend, fBackend, t) ==
    /\ lastThink' = <<ThinkRecord(u, m, ch, failAt, pBackend, fBackend, t)>>
    /\ last_provider_used' = IF t.generated # <<>> THEN t.generated[1].provider_used
                             ELSE last_provider_used
    /\ hot_storage' = t.store.hot_storage
    /\ hot_timestamps' = t.store.hot_timestamps
    /\ warm_docs' = t.store.warm_docs
    /\ cold_blobs' = t.store.cold_blobs
    /\ seq' = IF t.store.persisted THEN seq + 1 ELSE seq

Think(u, m, ch, failAt, pBackend, fBackend) ==
    /\ seq <= MaxSaves
    /\ \E t \in {ThinkCall(u, m, ch, failAt, pBackend, fBackend)} :
          ThinkEffects(u, m, ch, failAt, pBackend, fBackend, t)
    /\ lastReply' = <<>>
    /\ UNCHANGED <<now, warm, cold, lastSave, lastGet, primary_provider,
                   fallback_provider, confvars, auxvars>>

HandlerErrorBody(ch) ==
    [response |-> HandlerApology,
     metadata |-> [error |-> TRUE, error_type |-> "Exception", channel |-> ch]]

HandleMessage(u, m, ch, failAt, pBackend, fBackend) ==
    /\ seq <= MaxSaves
    /\ IF ~Truthy(u) \/ m = ""
       THEN /\ lastReply' = <<[user |-> u, message |-> m, status |-> 400, body |-> <<>>]>>
            /\ UNCHANGED <<lastThink, last_provider_used, hot_storage, hot_timestamps,
                           warm_docs, cold_blobs, seq, auxvars>>
       ELSE IF "brain" \notin AppComponents
       THEN /\ lastReply' = <<[user |-> u, message |-> m, status |-> 503, body |-> <<>>]>>
            /\ UNCHANGED <<lastThink, last_provider_used, hot_storage, hot_timestamps,
                           warm_docs, cold_blobs, seq, auxvars>>
       ELSE \E t \in {ThinkCall(u, m, ch, failAt, pBackend, fBackend)} :
               /\ ThinkEffects(u, m, ch, failAt, pBackend, fBackend, t)
               /\ lastReply' = <<[user |-> u, message |-> m, status |-> 200,
                                  body |-> IF t.raised THEN HandlerErrorBody(ch)
                                           ELSE t.result]>>
    /\ UNCHANGED <<now, warm, cold, lastSave, lastGet, primary_provider,
                   fallback_provider, confvars, auxvars>>

(* the orchestrator after _initialize_providers: a provider that is not
   available has been dropped *)
InitBrain ==
    /\ now = 0
    /\ seq = 1
    /\ warm = "absent"
    /\ cold = "absent"
    /\ hot_storage = <<>>
    /\ hot_timestamps = <<>>
    /\ warm_docs = {}
    /\ cold_blobs = <<>>
    /\ lastSave = <<>>
    /\ lastGet = <<>>
    /\ primary_provider \in {"none", "ready"}
    /\ fallback_provider \in {"none", "ready"}
    /\ last_provider_used = None
    /\ lastThink = <<>>
    /\ lastReply = <<>>
    /\ response = <<>>
    /\ confidence = <<>>
    /\ generating = <<>>
    /\ saves = <<>>
    /\ hot_appends = <<>>
    /\ pattern_cache = <<>>
    /\ lastDetect = <<>>
    /\ firstDetect = <<>>
    /\ satisfaction_score = <<>>
    /\ lastContext = <<>>
    /\ lastStats = <<>>
    /\ lastLoad = <<>>
    /\ inflight = <<>>
    /\ lastPrompt = <<>>
    /\ lastSignal = <<>>

NextBrain ==
    \/ \E u \in Users, m \in Messages, ch \in Channels,
          failAt \in LearningCalls \cup {None}, pB \in BackendOutcomes, fB \in BackendOutcomes :
          Think(u, m, ch, failAt, pB, fB)
    \/ \E u \in Users, m \in Messages, ch \in Channels,
          failAt \in LearningCalls \cup {None}, pB \in BackendOutcomes, fB \in BackendOutcomes :
          HandleMessage(u, m, ch, failAt, pB, fB)
    \/ \E u \in Users \cup {<<>>}, m \in Messages \cup {""}, ch \in Channels :
          /\ ~Truthy(u) \/ m = ""
          /\ HandleMessage(u, m, ch, None, Raised, Raised)

SpecBrain == InitBrain /\ [][NextBrain]_vars

----------------------------------------------------------------------------
(* _generate_response on its own, for every behaviour of the two provider calls *)

CallOutcomes ==
    {Raised} \cup {Returned(t) : t \in {EmptyText, AnswerText, StaticResponse,
                                        Text(9, FALSE, FALSE, FALSE, TRUE),
                                        Text(101, FALSE, FALSE, TRUE, FALSE)}}

Generate(pCall, fCall) ==
    /\ \E g \in {GenerateResponse(pCall, fCall)} :
          /\ lastThink' = <<[pCall |-> pCall, fCall |-> fCall, generated |-> <<g>>]>>
          /\ last_provider_used' = g.provider_used
    /\ UNCHANGED <<memvars, primary_provider, fallback_provider, lastReply, confvars, auxvars>>

NextFailover == \E pCall \in CallOutcomes, fCall \in CallOutcomes : Generate(pCall, fCall)

SpecFailover == InitBrain /\ [][NextFailover]_vars

----------------------------------------------------------------------------
(* Properties of the memory manager *)

TierOrder == <<"HOT", "WARM", "COLD">>

Position(tier) == CHOOSE i \in 1..3 : TierOrder[i] = tier

InTierOrder(q) == \A i \in 1..Len(q), j \in 1..Len(q) : i < j => Position(q[i]) < Position(q[j])

Queried(g, tier) == \E i \in 1..Len(g.queried) : g.queried[i] = tier

Owner(r) == IF "user_id" \in DOMAIN r THEN r.user_id ELSE r.userId

SameTurn(r, d) ==
    /\ r.timestamp = d.timestamp
    /\ r.message = d.message
    /\ r.response = d.response

(* C3: save_conversation never raises, returns True exactly when some tier
   stored the turn, and every write path that it counts as succeeded is a
   path whose tier actually stored the turn. *)
C3_SaveReportsStoredTiers ==
    lastSave # <<>> =>
        /\ ~lastSave[1].raised
        /\ lastSave[1].saved <=> (lastSave[1].stored # {})
        /\ lastSave[1].counted \subseteq lastSave[1].stored

(* C4: tiers are queried in the order HOT, WARM, COLD, and a colder tier is
   queried only while the tiers before it returned fewer than limit items. *)
C4_TierOrderAndStop ==
    lastGet # <<>> =>
        LET g == lastGet[1]
        IN /\ InTierOrder(g.queried)
           /\ Queried(g, "WARM") => g.found.HOT < g.limit
           /\ Queried(g, "COLD") => g.found.HOT + g.found.WARM < g.limit

C4_Witness ==
    /\ lastGet # <<>>
    /\ warm = "up"
    /\ warm_docs # {}
    /\ cold = "up"
    /\ lastGet[1].time_range # None
    /\ lastGet[1].limit >= 1
    /\ lastGet[1].found.HOT = lastGet[1].limit
    /\ lastGet[1].queried = <<"HOT">>

(* C5: a turn saved for user u and read back at once for the same user with
   limit >= 1 is among the returned turns. *)
C5_RoundTrip ==
    (/\ lastGet # <<>>
     /\ lastGet[1].afterSave # <<>>
     /\ lastGet[1].afterSave[1].user_id = lastGet[1].user
     /\ lastGet[1].limit >= 1)
    => \E i \in 1..Len(lastGet[1].results) :
           SameTurn(lastGet[1].results[i], lastGet[1].afterSave[1])

C5_Witness ==
    /\ lastGet # <<>>
    /\ lastGet[1].afterSave # <<>>
    /\ lastGet[1].afterSave[1].user_id = lastGet[1].user
    /\ lastGet[1].limit = 1
    /\ warm = "absent"
    /\ lastGet[1].afterSave[1].timestamp.fine = 2
    /\ Len(lastGet[1].results) = 1
    /\ SameTurn(lastGet[1].results[1], lastGet[1].afterSave[1])

(* C6: get_conversation_history for a user returns only turns that were
   saved under that same user id, whichever tier served them. *)
C6_PartitionIsolation ==
    lastGet # <<>> =>
        \A i \in 1..Len(lastGet[1].results) : Owner(lastGet[1].results[i]) = lastGet[1].user

----------------------------------------------------------------------------
(* Properties of the orchestrator *)

HasResponseAndMetadata(r) == {"response", "metadata"} \subseteq DOMAIN r

IsErrorResult(r) == "error" \in DOMAIN r.metadata /\ r.metadata.error

Rank(provider) == CHOOSE i \in 1..3 : <<"primary", "fallback", "static">>[i] = provider

Produced(attempt) == attempt.status = "success" /\ TruthyText(attempt.value)

(* C1: think never raises and returns an object with response and metadata
   (metadata.error = true when a step failed); the /v1/messages handler
   answers every request carrying user_id and message with such an object. *)
C1_ThinkNeverRaises ==
    /\ lastThink # <<>> =>
          /\ ~lastThink[1].raised
          /\ HasResponseAndMetadata(lastThink[1].result)
          /\ lastThink[1].failAt # None => IsErrorResult(lastThink[1].result)
    /\ (lastReply # <<>> /\ Truthy(lastReply[1].user) /\ lastReply[1].message # "") =>
          /\ lastReply[1].status = 200
          /\ HasResponseAndMetadata(lastReply[1].body)

C1_Witness ==
    /\ lastThink # <<>>
    /\ lastThink[1].failAt = "record_response"
    /\ lastThink[1].generated # <<>>
    /\ IsErrorResult(lastThink[1].result)
    /\ lastReply # <<>>
    /\ lastReply[1].status = 200
    /\ lastReply[1].body = lastThink[1].result

(* C2: the primary provider is attempted first and exactly when it reports
   available; the fallback is attempted only when it reports available and
   the primary was not attempted or produced no response; the static response
   comes last and only when no provider produced a response. *)
C2_FailoverOrder ==
    (lastThink # <<>> /\ lastThink[1].generated # <<>>) =>
        LET a == lastThink[1].generated[1].attempts
            Of(provider) == {i \in 1..Len(a) : a[i].provider = provider}
        IN /\ \A i \in 1..Len(a), j \in 1..Len(a) :
                  i < j => Rank(a[i].provider) < Rank(a[j].provider)
           /\ Of("primary") # {} <=> primary_provider = "ready"
           /\ Of("fallback") # {} =>
                  /\ fallback_provider = "ready"
                  /\ \A i \in Of("primary") : ~Produced(a[i])
           /\ Of("static") # {} <=>
                  \A i \in Of("primary") \cup Of("fallback") : ~Produced(a[i])
           /\ \A i \in Of("primary") \cup Of("fallback") :
                  Produced(a[i]) => lastThink[1].generated[1].response = a[i].value[1]

C2_Witness ==
    /\ lastThink # <<>>
    /\ lastThink[1].generated # <<>>
    /\ primary_provider = "ready"
    /\ fallback_provider = "ready"
    /\ Len(lastThink[1].generated[1].attempts) = 2
    /\ lastThink[1].generated[1].attempts[1].provider = "primary"
    /\ lastThink[1].generated[1].attempts[1].status = "failed"
    /\ lastThink[1].generated[1].attempts[2].provider = "fallback"
    /\ Produced(lastThink[1].generated[1].attempts[2])
    /\ lastThink[1].generated[1].provider_used = "fallback"

(* C7: the turn is persisted only after the response is final, and once think
   has returned a response the turn is readable from the HOT tier. *)
C7_TurnReadableAfterThink ==
    (lastThink # <<>> /\ ~lastThink[1].raised /\ ~IsErrorResult(lastThink[1].result)) =>
        /\ \A i \in 1..Len(lastThink[1].steps) :
               lastThink[1].steps[i] = "persist" => i > 1 /\ lastThink[1].steps[1] = "generate"
        /\ \E i \in 1..Len(RamSearch(hot_storage, lastThink[1].user, HistoryLimit, now)) :
               LET turn == RamSearch(hot_storage, lastThink[1].user, HistoryLimit, now)[i]
               IN /\ turn.message = lastThink[1].message
                  /\ turn.response = lastThink[1].result.response

(* C8: once the response text is produced, a failure of persistence or of a
   learning-engine update does not change what think returns. *)
C8_LateFailureKeepsResponse ==
    (lastThink # <<>> /\ ~lastThink[1].raised /\ lastThink[1].generated # <<>>) =>
        /\ lastThink[1].result.response = lastThink[1].generated[1].response
        /\ ~IsErrorResult(lastThink[1].result)

(* C10: when the primary provider's call fails and the secondary can answer,
   the returned metadata names "fallback" as the provider used and lists two
   attempts in call order: primary failed, secondary success. *)
C10_ScenarioA ==
    (/\ lastThink # <<>>
     /\ primary_provider = "ready"
     /\ fallback_provider = "ready"
     /\ lastThink[1].failAt = None
     /\ lastThink[1].pBackend = Raised
     /\ lastThink[1].fBackend = Returned(AnswerText))
    => LET md == lastThink[1].result.metadata
       IN /\ "provider_used" \in DOMAIN md
          /\ md.provider_used = "fallback"
          /\ "attempts" \in DOMAIN md
          /\ Len(md.attempts) = 2
          /\ md.attempts[1].status = "failed"
          /\ md.attempts[2].status = "success"

(* C9: the confidence computed for any response text lies in [0.1, 0.99]. *)
C9_ConfidenceInRange ==
    confidence # <<>> => confidence[1] >= 10 /\ confidence[1] <= 99

C9_Witness ==
    /\ confidence = <<10>>
    /\ response # <<>>
    /\ response[1].marker
    /\ response[1].hedging
    /\ response[1].question

(* C11: with both providers unavailable and a greeting as the message, think
   raises nothing and returns a static greeting text, which is not the generic
   static text, with confidence 0.2. *)
C11_ScenarioB ==
    (/\ lastThink # <<>>
     /\ primary_provider = "none"
     /\ fallback_provider = "none"
     /\ lastThink[1].message = "oi"
     /\ lastThink[1].failAt = None)
    => /\ ~lastThink[1].raised
       /\ ~IsErrorResult(lastThink[1].result)
       /\ lastThink[1].result.response # StaticResponse
       /\ lastThink[1].result.metadata.confidence = 20

----------------------------------------------------------------------------
(* The providers' generate under its tenacity retry decorator.  One call is
   followed step by step: the body runs, then the decorator either returns,
   gives up, or sleeps and runs the body again. *)

MaxAttempts == 2
WaitMultiplier == 1
WaitMin == 2
WaitMax == 10

ProviderClasses == {"azure_openai", "claude"}

(* what one request to the provider's API can come back with *)
ApiOutcomes == {"text", "empty", "401", "404", "429", "timeout"}

ApiErrors == {"401", "404", "429", "timeout"}

(* AzureOpenAIProvider.generate, one execution of the body: one request; an
   error passes through the except block, which logs and raises it again *)
AzureBody(o1) ==
    [requests |-> <<o1>>,
     raised   |-> o1 \in ApiErrors,
     value    |-> o1]

(* ClaudeProvider.generate, one execution of the body: create_message sends
   the request again with the default model when the first one is answered
   not-found; an empty content is replaced by an apology text *)
ClaudeBody(o1, o2) ==
    LET requests == IF o1 = "404" THEN <<o1, o2>> ELSE <<o1>>
        final == requests[Len(requests)]
    IN  [requests |-> requests,
         raised   |-> final \in ApiErrors,
         value    |-> IF final = "empty" THEN "apology" ELSE final]

GenerateBody(provider, o1, o2) ==
    IF provider = "claude" THEN ClaudeBody(o1, o2) ELSE AzureBody(o1)

(* a retry that gives up one attempt later *)
StopAfterOneMore(attempt_number) == attempt_number >= MaxAttempts + 1

(* stop=stop_after_attempt(2) *)
StopAfterAttempt(attempt_number) == attempt_number >= MaxAttempts

(* the decorator names no retry= condition: tenacity's default retries on
   every exception *)
RetryIf(error) == error \in ApiErrors

(* wait=wait_exponential(multiplier=1, min=2, max=10) *)
WaitExponential(attempt_number) ==
    Max(WaitMin, Min(WaitMultiplier * 2 ^ (attempt_number - 1), WaitMax))

(* the decorator's decision after one execution of the body *)
AfterAttempt(g, body) ==
    LET ran == [g EXCEPT !.requests = g.requests \o body.requests]
    IN  IF ~body.raised
        THEN [ran EXCEPT !.phase = "done", !.result = Returned(body.value)]
        ELSE IF ~RetryIf(body.value)
        THEN [ran EXCEPT !.phase = "done", !.result = Raised, !.error = body.value]
        ELSE IF StopAfterAttempt(g.attempt_number)
        THEN [ran EXCEPT !.phase = "done", !.result = Raised, !.error = "RetryError"]
        ELSE [ran EXCEPT !.phase = "sleeping",
                         !.slept = g.slept + WaitExponential(g.attempt_number)]

(* a caller awaits provider.generate(prompt, context) *)
GenerateCall(provider) ==
    /\ IF generating = <<>> THEN TRUE ELSE generating[1].phase = "done"
    /\ generating' = <<[provider |-> provider, attempt_number |-> 1,
                        phase |-> "running", requests |-> <<>>, slept |-> 0,
                        result |-> <<>>, error |-> None]>>
    /\ UNCHANGED <<memvars, brainvars, confvars, concvars, patvars, opvars>>

(* the body of generate runs once and the decorator decides *)
GenerateAttempt(o1, o2) ==
    /\ generating # <<>>
    /\ generating[1].phase = "running"
    /\ generating' =
           <<AfterAttempt(generating[1],
                          GenerateBody(generating[1].provider, o1, o2))>>
    /\ UNCHANGED <<memvars, brainvars, confvars, concvars, patvars, opvars>>

(* the backoff sleep ends and the next attempt starts *)
RetrySleep ==
    /\ generating # <<>>
    /\ generating[1].phase = "sleeping"
    /\ generating' = <<[generating[1] EXCEPT !.phase = "running",
                            !.attempt_number = generating[1].attempt_number + 1]>>
    /\ UNCHANGED <<memvars, brainvars, confvars, concvars, patvars, opvars>>

AttemptStep == \E o1 \in ApiOutcomes, o2 \in ApiOutcomes : GenerateAttempt(o1, o2)

InitRetry ==
    /\ now = 0
    /\ seq = 1
    /\ warm = "absent"
    /\ cold = "absent"
    /\ hot_storage = <<>>
    /\ hot_timestamps = <<>>
    /\ warm_docs = {}
    /\ cold_blobs = <<>>
    /\ lastSave = <<>>
    /\ lastGet = <<>>
    /\ primary_provider \in {"none", "ready"}
    /\ fallback_provider \in {"none", "ready"}
    /\ last_provider_used = None
    /\ lastThink = <<>>
    /\ lastReply = <<>>
    /\ response = <<>>
    /\ confidence = <<>>
    /\ generating = <<>>
    /\ saves = <<>>
    /\ hot_appends = <<>>
    /\ pattern_cache = <<>>
    /\ lastDetect = <<>>
    /\ firstDetect = <<>>
    /\ satisfaction_score = <<>>
    /\ lastContext = <<>>
    /\ lastStats = <<>>
    /\ lastLoad = <<>>
    /\ inflight = <<>>
    /\ lastPrompt = <<>>
    /\ lastSignal = <<>>

NextRetry ==
    \/ \E provider \in ProviderClasses : GenerateCall(provider)
    \/ AttemptStep
    \/ RetrySleep

(* every request is answered or times out, and every sleep ends *)
SpecRetry ==
    InitRetry /\ [][NextRetry]_vars /\ WF_vars(AttemptStep) /\ WF_vars(RetrySleep)

(* C12: a generate call whose first request is answered 401 or 404 makes exactly
   one attempt and one request, never sleeps for a retry, and ends with the
   error raised. *)
C12_NoRetryOnAuthOrNotFound ==
    (/\ generating # <<>>
     /\ generating[1].requests # <<>>
     /\ generating[1].requests[1] \in {"401", "404"})
    => /\ generating[1].attempt_number = 1
       /\ Len(generating[1].requests) = 1
       /\ generating[1].phase = "done"
       /\ generating[1].result = Raised

(* C13: a generate call never runs its body more than two times, and every
   call that was started comes to an end with a result or an error. *)
C13_BoundedAttempts ==
    /\ [](generating # <<>> => generating[1].attempt_number <= 2)
    /\ [](generating # <<>> /\ generating[1].phase = "sleeping"
              => generating[1].attempt_number < 2)
    /\ ((generating # <<>> /\ generating[1].phase # "done")
            ~> (generating # <<>> /\ generating[1].phase = "done"))

C13_Witness ==
    /\ generating # <<>>
    /\ generating[1].phase = "done"
    /\ generating[1].attempt_number = 2
    /\ generating[1].error = "RetryError"
    /\ generating[1].slept = 2

(* C14: the list get_conversation_history returns has at most limit items, as
   many as the tiers returned together when that is fewer, and its timestamps
   never increase from one item to the next. *)
C14_SortedAndTruncated ==
    lastGet # <<>> =>
        LET g == lastGet[1]
            total == g.found.HOT + g.found.WARM + g.found.COLD
        IN  /\ Len(g.results) <= g.limit
            /\ Len(g.results) = Min(g.limit, total)
            /\ \A i \in 1..Len(g.results) : \A j \in i..Len(g.results) :
                   g.results[i].timestamp.fine >= g.results[j].timestamp.fine

C14_Witness ==
    /\ lastGet # <<>>
    /\ lastGet[1].found.HOT = 0
    /\ lastGet[1].found.COLD = 2
    /\ Len(lastGet[1].results) = 2
    /\ lastGet[1].results[1].timestamp.fine > lastGet[1].results[2].timestamp.fine

(* C15: whenever HOT and WARM together returned fewer items than limit and the
   COLD tier is present, get_conversation_history queries COLD, and a turn of
   the user that only COLD holds is among the results. *)
C15_ColdQueriedWhenShort ==
    (/\ lastGet # <<>>
     /\ cold # "absent"
     /\ lastGet[1].found.HOT + lastGet[1].found.WARM < lastGet[1].limit)
    => /\ Queried(lastGet[1], "COLD")
       /\ (/\ cold = "up"
           /\ lastGet[1].found.HOT + lastGet[1].found.WARM = 0
           /\ \E n \in DOMAIN cold_blobs :
                  GunzipJson(cold_blobs[n]).user_id = lastGet[1].user)
          => lastGet[1].results # <<>>

HeldByWarm(r) == \E d \in warm_docs : d.timestamp = r.timestamp

HeldByCold(r) ==
    \E n \in DOMAIN cold_blobs : GunzipJson(cold_blobs[n]).timestamp = r.timestamp

(* C16: a turn saved longer ago than the HOT TTL, which neither WARM nor COLD
   holds, is in no result of get_conversation_history. *)
C16_ScenarioD ==
    lastGet # <<>> =>
        \A i \in 1..Len(lastGet[1].results) :
            LET r == lastGet[1].results[i]
            IN  now - r.timestamp.coarse > HotTtl => HeldByWarm(r) \/ HeldByCold(r)

C16_Witness ==
    /\ lastGet # <<>>
    /\ lastGet[1].limit > 0
    /\ lastGet[1].results = <<>>
    /\ lastGet[1].user \in DOMAIN hot_storage
    /\ \E i \in 1..Len(hot_storage[lastGet[1].user]) :
           LET it == hot_storage[lastGet[1].user][i]
           IN  /\ now - it.timestamp > HotTtl
               /\ ~HeldByWarm(it.data)
               /\ ~HeldByCold(it.data)

(* C17: save_conversation calls the COLD tier exactly when COLD is registered
   and the metadata carries a confidence above 0.8, and a working COLD tier then
   holds the turn; HOT is always called, and WARM whenever it is registered. *)
C17_ArchiveAboveThreshold ==
    lastSave # <<>> =>
        LET s == lastSave[1]
            meta == s.data.metadata
            above == "confidence" \in DOMAIN meta /\ meta.confidence > 80
        IN  /\ "COLD" \in s.called <=> (cold # "absent" /\ above)
            /\ "COLD" \in s.stored <=> (cold = "up" /\ above)
            /\ HeldByCold(s.data) <=> (cold = "up" /\ above)
            /\ "HOT" \in s.called
            /\ "WARM" \in s.called <=> warm # "absent"

C17_Witness ==
    /\ lastSave # <<>>
    /\ cold = "up"
    /\ warm = "up"
    /\ lastSave[1].data.metadata = [confidence |-> 80]
    /\ lastSave[1].called = {"HOT", "WARM"}
    /\ lastSave[1].stored = {"HOT", "WARM"}
    /\ cold_blobs = <<>>

----------------------------------------------------------------------------
(* Concurrent save_conversation calls.  A call is a coroutine: it builds the
   turn and its key, then awaits the HOT, WARM and COLD saves one after the
   other.  Another call can run between two awaits; RAMProvider.save has no
   await inside, so it runs as one step. *)

MaxWriters == 2

(* save_conversation up to its first await: the turn and the key are built *)
SaveBegin(u, m, r, meta) ==
    /\ Len(saves) < MaxWriters
    /\ saves' = Append(saves, [data |-> ConversationData(u, m, r, meta),
                               key |-> StorageKey(u, seq), pc |-> "hot"])
    /\ seq' = seq + 1
    /\ UNCHANGED <<now, warm, cold, hot_storage, hot_timestamps, warm_docs,
                   cold_blobs, lastSave, lastGet, hot_appends,
                   brainvars, confvars, llmvars, patvars, opvars>>

(* await self.providers[HOT].save(key, conversation_data) *)
SaveHot(i) ==
    /\ saves[i].pc = "hot"
    /\ \E hot \in {RamSave(hot_storage, hot_timestamps, saves[i].key,
                           saves[i].data, now)} :
           /\ hot_storage' = hot.storage
           /\ hot_timestamps' = hot.timestamps
    /\ hot_appends' =
           [u \in DOMAIN hot_appends \cup {saves[i].data.user_id} |->
               IF u = saves[i].data.user_id
               THEN Append(IF u \in DOMAIN hot_appends THEN hot_appends[u] ELSE <<>>,
                           saves[i].data)
               ELSE hot_appends[u]]
    /\ saves' = [saves EXCEPT ![i].pc = "warm"]
    /\ UNCHANGED <<now, seq, warm, cold, warm_docs, cold_blobs, lastSave, lastGet,
                   brainvars, confvars, llmvars, patvars, opvars>>

(* await self.providers[WARM].save(key, conversation_data), if registered *)
SaveWarm(i) ==
    /\ saves[i].pc = "warm"
    /\ warm_docs' = IF warm # "absent"
                    THEN CosmosSave(warm_docs, warm, saves[i].key, saves[i].data).docs
                    ELSE warm_docs
    /\ saves' = [saves EXCEPT ![i].pc = "cold"]
    /\ UNCHANGED <<now, seq, warm, cold, hot_storage, hot_timestamps, cold_blobs,
                   lastSave, lastGet, hot_appends,
                   brainvars, confvars, llmvars, patvars, opvars>>

(* await self.providers[COLD].save(key, conversation_data), if important *)
SaveCold(i) ==
    /\ saves[i].pc = "cold"
    /\ cold_blobs' =
           IF /\ Important(MetaGet(saves[i].data.metadata, "confidence",
                                   DefaultImportance))
              /\ cold # "absent"
           THEN BlobSave(cold_blobs, cold, saves[i].key, saves[i].data).blobs
           ELSE cold_blobs
    /\ saves' = [saves EXCEPT ![i].pc = "done"]
    /\ UNCHANGED <<now, seq, warm, cold, hot_storage, hot_timestamps, warm_docs,
                   lastSave, lastGet, hot_appends,
                   brainvars, confvars, llmvars, patvars, opvars>>

NextWriters ==
    \/ \E u \in Users, m \in Messages, meta \in Metas : SaveBegin(u, m, "r", meta)
    \/ \E i \in 1..Len(saves) : SaveHot(i)
    \/ \E i \in 1..Len(saves) : SaveWarm(i)
    \/ \E i \in 1..Len(saves) : SaveCold(i)

SpecWriters == InitMem /\ [][NextWriters]_vars

(* the newest n items of a deque *)
Newest(s, n) == IF Len(s) <= n THEN s ELSE SubSeq(s, Len(s) - n + 1, Len(s))

(* the turns of the calls that are past their HOT save, for one user *)
PastHot(u) ==
    {saves[i].data : i \in {j \in 1..Len(saves) :
                               /\ saves[j].pc # "hot"
                               /\ saves[j].data.user_id = u}}

(* C18: however the concurrent calls interleave, each user's buffer holds the
   items appended for that user in the order of their appends, the newest
   max_items of them, and every call that is past its HOT save has appended
   its turn exactly once. *)
C18_NoLostAppend ==
    /\ DOMAIN hot_storage = DOMAIN hot_appends
    /\ \A u \in DOMAIN hot_storage :
           /\ [i \in 1..Len(hot_storage[u]) |-> hot_storage[u][i].data]
                  = Newest(hot_appends[u], HotMaxItems)
           /\ {hot_appends[u][i] : i \in 1..Len(hot_appends[u])} = PastHot(u)
           /\ Len(hot_appends[u]) = Cardinality(PastHot(u))
    /\ \A u \in Users : PastHot(u) # {} => u \in DOMAIN hot_storage

C18_Witness ==
    /\ Len(saves) = 2
    /\ saves[1].pc = "cold"
    /\ saves[2].pc = "done"
    /\ saves[1].data.user_id = saves[2].data.user_id
    /\ hot_appends[saves[1].data.user_id] = <<saves[1].data, saves[2].data>>
    /\ hot_storage[saves[1].data.user_id][1].data = saves[2].data

(* C19: a user's HOT buffer never holds more than max_items items and a search
   never returns more than that from it; the turn saved last is the newest item
   of its user's buffer, and a read by that user before the turn expires
   returns it first. *)
C19_BoundedNewestKept ==
    /\ \A u \in DOMAIN hot_storage : Len(hot_storage[u]) <= HotMaxItems
    /\ lastGet # <<>> => lastGet[1].found.HOT <= HotMaxItems
    /\ (lastSave # <<>> /\ lastSave[1].fresh) =>
           LET u == lastSave[1].user
           IN  /\ u \in DOMAIN hot_storage
               /\ hot_storage[u][Len(hot_storage[u])].data = lastSave[1].data
    /\ (/\ lastGet # <<>>
        /\ lastGet[1].afterSave # <<>>
        /\ lastGet[1].afterSave[1].user_id = lastGet[1].user
        /\ lastGet[1].limit > 0)
       => /\ lastGet[1].results # <<>>
          /\ SameTurn(lastGet[1].results[1], lastGet[1].afterSave[1])

C19_Witness ==
    /\ lastGet # <<>>
    /\ lastGet[1].user = UserA
    /\ lastGet[1].afterSave # <<>>
    /\ DOMAIN hot_storage = {UserA}
    /\ Cardinality(DOMAIN hot_timestamps) = 2
    /\ Len(hot_storage[UserA]) = HotMaxItems
    /\ lastGet[1].found.HOT = HotMaxItems
    /\ SameTurn(lastGet[1].results[1], lastGet[1].afterSave[1])

----------------------------------------------------------------------------
(* PatternDetector.  A message is the sequence of its lower-case words; the
   words are chosen so that none contains another, which makes the code's
   substring tests word tests.  A history item carries the message and the
   hour of its timestamp.  Confidences are in hundredths. *)

MaxDetects == 2
MinSimilarity == 70
MinPatternOccurrences == 2
CacheLimit == 100

PatternMessages == {<<"status">>, <<"obrigado">>, <<"status", "hoje">>}

HistoryItem(m, hour) == [message |-> m, hour |-> hour]

Histories ==
    {<<>>,
     <<HistoryItem(<<"status">>, 9), HistoryItem(<<"status">>, 9)>>,
     <<HistoryItem(<<"status">>, 9), HistoryItem(<<"status">>, 9),
       HistoryItem(<<"status">>, 9)>>,
     <<HistoryItem(<<"status">>, 9), HistoryItem(<<"obrigado">>, 14),
       HistoryItem(<<"status", "hoje">>, 9)>>}

WordSet(m) == {m[i] : i \in 1..Len(m)}

Contains(m, word) == word \in WordSet(m)

Pattern(type, about, occurrences, conf) ==
    [pattern_type |-> type, about |-> about, occurrences |-> occurrences,
     confidence |-> conf, detected_at |-> None, user_id |-> None]

(* _calculate_similarity: Jaccard index of the word sets, in hundredths *)
CalculateSimilarity(m1, m2) ==
    IF WordSet(m1) = {} \/ WordSet(m2) = {} THEN 0
    ELSE (100 * Cardinality(WordSet(m1) \cap WordSet(m2)))
             \div Cardinality(WordSet(m1) \cup WordSet(m2))

DetectRecurringQuestions(m, h) ==
    LET Found(similar) ==
            IF Len(similar) >= MinPatternOccurrences
            THEN <<Pattern("recurring_question", Take(similar, 3), Len(similar),
                           Min(90, Len(similar) * 20))>>
            ELSE <<>>
    IN  IF h = <<>> THEN <<>>
        ELSE Found(SelectData(h, LAMBDA item :
                       /\ item.message # <<>>
                       /\ CalculateSimilarity(m, item.message) >= MinSimilarity))

(* Counter.most_common(1): the highest count, the hour seen first on a tie *)
DetectDailyRoutines(h) ==
    LET Count(hour) == Cardinality({i \in 1..Len(h) : h[i].hour = hour})
        Peak(i) == \A j \in 1..Len(h) :
                       \/ Count(h[j].hour) < Count(h[i].hour)
                       \/ (Count(h[j].hour) = Count(h[i].hour) /\ i <= j)
                       \/ h[j].hour = h[i].hour
        Found(hour) ==
            IF Count(hour) >= 3
            THEN <<Pattern("daily_routine", hour, Count(hour),
                           Min(80, Count(hour) * 15))>>
            ELSE <<>>
    IN  IF h = <<>> THEN <<>>
        ELSE Found(h[CHOOSE i \in 1..Len(h) :
                        Peak(i) /\ \A k \in 1..(i - 1) : h[k].hour # h[i].hour].hour)

ExtractTopic(m) ==
    IF m = <<>> THEN None
    ELSE IF Contains(m, "status") THEN "status"
    ELSE "general"

(* the windows of length n over the topics, in order *)
Windows(topics, n) ==
    [i \in 1..(IF Len(topics) >= n THEN Len(topics) - n + 1 ELSE 0) |->
        SubSeq(topics, i, i + n - 1)]

(* _find_sequences and the loop over its result: one pattern for each window
   seen more than once, in the order of first appearance *)
DetectTopicSequences(h) ==
    LET Topics(items) ==
            SelectData([i \in 1..Len(items) |-> ExtractTopic(items[i].message)],
                       LAMBDA t : t # None)
        Patterns(w) ==
            LET Count(x) == Cardinality({i \in 1..Len(w) : w[i] = x})
                firsts == {i \in 1..Len(w) :
                              /\ Count(w[i]) >= 2
                              /\ \A k \in 1..(i - 1) : w[k] # w[i]}
                F[i \in 0..Len(w)] ==
                    IF i = 0 THEN <<>>
                    ELSE IF i \in firsts
                    THEN Append(F[i - 1],
                                Pattern("topic_sequence", w[i], Count(w[i]),
                                        Min(70, Count(w[i]) * 25)))
                    ELSE F[i - 1]
            IN  F[Len(w)]
        Over(topics) == Patterns(Windows(topics, 2) \o Windows(topics, 3))
    IN  IF Len(h) < 3 THEN <<>>
        ELSE Over(Topics(IF Len(h) > 10 THEN SubSeq(h, Len(h) - 9, Len(h)) ELSE h))

PositiveIndicators == {"obrigado"}

NegativeIndicators == {"ruim"}

DetectSatisfactionPatterns(m) ==
    LET positive == Cardinality(PositiveIndicators \cap WordSet(m))
        negative == Cardinality(NegativeIndicators \cap WordSet(m))
        score == positive - negative
    IN  IF positive > 0 \/ negative > 0
        THEN <<Pattern("satisfaction_signal",
                       IF positive > negative THEN "positive" ELSE "negative",
                       score,
                       Min(90, (IF score < 0 THEN 0 - score ELSE score) * 30))>>
        ELSE <<>>

DetectCommandPatterns(m) ==
    IF Contains(m, "status")
    THEN <<Pattern("command_pattern", "status_check", 1, 80)>>
    ELSE <<>>

(* detect_patterns with the detector's cache handed in and out *)
DetectPatterns(cache, u, m, h, t) ==
    LET Finish(patterns) ==
            LET stamped == [i \in 1..Len(patterns) |->
                               [patterns[i] EXCEPT !.detected_at = t, !.user_id = u]]
                extended == (IF u \in DOMAIN cache THEN cache[u] ELSE <<>>) \o stamped
                limited == IF Len(extended) > CacheLimit
                           THEN SubSeq(extended, Len(extended) - CacheLimit + 1,
                                       Len(extended))
                           ELSE extended
            IN  [patterns |-> stamped,
                 cache |-> [k \in DOMAIN cache \cup {u} |->
                               IF k = u THEN limited ELSE cache[k]]]
    IN  Finish(DetectRecurringQuestions(m, h) \o DetectDailyRoutines(h)
               \o DetectTopicSequences(h) \o DetectSatisfactionPatterns(m)
               \o DetectCommandPatterns(m))

Detect(u, m, h) ==
    /\ IF lastDetect = <<>> THEN TRUE ELSE lastDetect[1].n < MaxDetects
    /\ \E d \in {DetectPatterns(pattern_cache, u, m, h, now)} :
         \E call \in {[n |-> IF lastDetect = <<>> THEN 1 ELSE lastDetect[1].n + 1,
                       user |-> u, message |-> m, history |-> h,
                       patterns |-> d.patterns]} :
           /\ pattern_cache' = d.cache
           /\ lastDetect' = <<call>>
           /\ firstDetect' = IF firstDetect = <<>> THEN <<call>> ELSE firstDetect
    /\ UNCHANGED <<memvars, brainvars, confvars, llmvars, concvars, opvars>>

InitPatterns ==
    /\ now = 0
    /\ seq = 1
    /\ warm = "absent"
    /\ cold = "absent"
    /\ hot_storage = <<>>
    /\ hot_timestamps = <<>>
    /\ warm_docs = {}
    /\ cold_blobs = <<>>
    /\ lastSave = <<>>
    /\ lastGet = <<>>
    /\ primary_provider = "none"
    /\ fallback_provider = "none"
    /\ last_provider_used = None
    /\ lastThink = <<>>
    /\ lastReply = <<>>
    /\ response = <<>>
    /\ confidence = <<>>
    /\ generating = <<>>
    /\ saves = <<>>
    /\ hot_appends = <<>>
    /\ pattern_cache = <<>>
    /\ lastDetect = <<>>
    /\ firstDetect = <<>>
    /\ satisfaction_score = <<>>
    /\ lastContext = <<>>
    /\ lastStats = <<>>
    /\ lastLoad = <<>>
    /\ inflight = <<>>
    /\ lastPrompt = <<>>
    /\ lastSignal = <<>>

NextPatterns ==
    \/ \E u \in Users, m \in PatternMessages, h \in Histories : Detect(u, m, h)
    \/ Tick

SpecPatterns == InitPatterns /\ [][NextPatterns]_vars

(* C20: a detect_patterns call given the user, message and history of an
   earlier call returns what that call returned. *)
C20_Deterministic ==
    (/\ firstDetect # <<>>
     /\ lastDetect[1].n > 1
     /\ lastDetect[1].user = firstDetect[1].user
     /\ lastDetect[1].message = firstDetect[1].message
     /\ lastDetect[1].history = firstDetect[1].history)
    => lastDetect[1].patterns = firstDetect[1].patterns

(* C21: when the history holds two earlier sendings of the current message, so
   that the current one is the third, detect_patterns returns a
   recurring_question pattern whose occurrences is 3. *)
C21_ScenarioC ==
    (/\ lastDetect # <<>>
     /\ Len(lastDetect[1].history) = 2
     /\ \A i \in 1..2 : lastDetect[1].history[i].message = lastDetect[1].message)
    => \E i \in 1..Len(lastDetect[1].patterns) :
           /\ lastDetect[1].patterns[i].pattern_type = "recurring_question"
           /\ lastDetect[1].patterns[i].occurrences = 3

----------------------------------------------------------------------------
(* The satisfaction update of think (step 10).  Scores are in tenths.  A
   message is the sequence of its words, as typed; the code lower-cases it
   before it looks for the signal words. *)

ScoreMax == 10

SignalMessages ==
    {<<"Obrigado">>, <<"perfeito">>, <<"errado">>, <<"obrigado", "errado">>,
     <<"oi">>, <<"valeu">>}

(* str.lower on the words of the messages above *)
Lower(word) == IF word = "Obrigado" THEN "obrigado" ELSE word

HasPositiveSignal(m) ==
    \E i \in 1..Len(m) : Lower(m[i]) \in {"obrigado", "perfeito"}

HasNegativeSignal(m) ==
    \E i \in 1..Len(m) : Lower(m[i]) \in {"não entendi", "errado"}

(* an update that adds and subtracts without the min and the max *)
UpdateSatisfactionUnclamped(score, m) ==
    IF HasPositiveSignal(m) THEN score + 1
    ELSE IF HasNegativeSignal(m) THEN score - 1
    ELSE score

UpdateSatisfaction(score, m) ==
    IF HasPositiveSignal(m) THEN Min(ScoreMax, score + 1)
    ELSE IF HasNegativeSignal(m) THEN Max(0, score - 1)
    ELSE score

(* get_or_create_profile makes the user's profile on the first interaction;
   its satisfaction score starts somewhere in [0, 1] *)
CreateProfile(u, score) ==
    /\ u \notin DOMAIN satisfaction_score
    /\ satisfaction_score' =
           [k \in DOMAIN satisfaction_score \cup {u} |->
               IF k = u THEN score ELSE satisfaction_score[k]]
    /\ lastSignal' = <<>>
    /\ UNCHANGED <<memvars, brainvars, confvars, llmvars, concvars, patvars,
                   lastContext, lastStats, lastLoad, inflight, lastPrompt>>

(* think reaches its step 10 for a message of the user *)
UpdateOnSignal(u, m) ==
    /\ u \in DOMAIN satisfaction_score
    /\ satisfaction_score' =
           [satisfaction_score EXCEPT ![u] = UpdateSatisfaction(satisfaction_score[u], m)]
    /\ lastSignal' = <<[user |-> u, message |-> m,
                        before |-> satisfaction_score[u],
                        after |-> UpdateSatisfaction(satisfaction_score[u], m)]>>
    /\ UNCHANGED <<memvars, brainvars, confvars, llmvars, concvars, patvars,
                   lastContext, lastStats, lastLoad, inflight, lastPrompt>>

NextSatisfaction ==
    \/ \E u \in Users, score \in 0..ScoreMax : CreateProfile(u, score)
    \/ \E u \in Users, m \in SignalMessages : UpdateOnSignal(u, m)

(* starts with no profile; everything else is idle *)
SpecSatisfaction == InitPatterns /\ [][NextSatisfaction]_vars

(* C22: every user's satisfaction score is within [0, 1]; a message with a
   positive signal raises it by 0.1 up to 1, a message with a negative signal
   and no positive one lowers it by 0.1 down to 0, and any other message
   leaves it as it was. *)
C22_SatisfactionClamped ==
    /\ \A u \in DOMAIN satisfaction_score :
           satisfaction_score[u] >= 0 /\ satisfaction_score[u] <= 10
    /\ lastSignal # <<>> =>
           LET s == lastSignal[1]
               words == {Lower(s.message[i]) : i \in 1..Len(s.message)}
               positive == words \cap {"obrigado", "perfeito"} # {}
               negative == words \cap {"não entendi", "errado"} # {}
           IN  /\ satisfaction_score[s.user] = s.after
               /\ positive => s.after = (IF s.before = 10 THEN 10 ELSE s.before + 1)
               /\ (negative /\ ~positive) =>
                      s.after = (IF s.before = 0 THEN 0 ELSE s.before - 1)
               /\ (~negative /\ ~positive) => s.after = s.before

C22_Witness ==
    /\ lastSignal # <<>>
    /\ lastSignal[1].message = <<"Obrigado">>
    /\ lastSignal[1].before = 10
    /\ lastSignal[1].after = 10

(* C23: the confidence of a response is 0.2 when it is a static or error text;
   otherwise it is 0.7, less 0.2 for a length below 10, plus 0.1 for a length
   above 100, less 0.3 for a hedging phrase, less 0.1 when the text ends in a
   question, plus 0.1 when it echoes prior context, brought into [0.1, 0.99]. *)
C23_StatedHeuristic ==
    (response # <<>> /\ confidence # <<>>) =>
        LET r == response[1]
            stated == 70 - (IF r.len < 10 THEN 20 ELSE 0)
                         + (IF r.len > 100 THEN 10 ELSE 0)
                         - (IF r.hedging THEN 30 ELSE 0)
                         - (IF r.ends_question THEN 10 ELSE 0)
                         + (IF r.contextual THEN 10 ELSE 0)
        IN  confidence[1] = IF r.marker THEN 20
                            ELSE IF stated < 10 THEN 10
                            ELSE IF stated > 99 THEN 99
                            ELSE stated

----------------------------------------------------------------------------
(* The user context: CosmosProvider.save_user_context writes it,
   MemoryManager.get_user_context reads it through CosmosProvider.load.  A
   preferences map is the set of its (name, value) pairs. *)

Preferences == {{<<"style", "formal">>}, {<<"style", "casual">>}}

(* CosmosProvider.load without user_id:
   SELECT * FROM c WHERE c.key = @key, first item if any *)
CosmosLoad(docs, status, key) ==
    IF status # "up" THEN <<>>
    ELSE LET items == {d \in docs : "key" \in DOMAIN d /\ d.key = key}
         IN  IF items = {} THEN <<>> ELSE <<CHOOSE d \in items : TRUE>>

(* upsert_item of the context document, whose id is context_<user> *)
SaveUserContext(u, prefs) ==
    /\ warm = "up"
    /\ warm_docs' =
           {d \in warm_docs : d.id # <<"context", "_">> \o u}
           \cup {[id |-> <<"context", "_">> \o u, userId |-> u,
                  type |-> "user_context", timestamp |-> now,
                  preferences |-> prefs]}
    /\ lastContext' = <<>>
    /\ UNCHANGED <<now, seq, warm, cold, hot_storage, hot_timestamps, cold_blobs,
                   lastSave, lastGet, brainvars, confvars, llmvars, concvars,
                   patvars, satisfaction_score, lastStats, lastLoad, inflight,
                   lastPrompt, lastSignal>>

GetUserContext(u) ==
    /\ \E user_data \in {IF warm # "absent"
                         THEN CosmosLoad(warm_docs, warm, <<"context", ":">> \o u)
                         ELSE <<>>} :
           lastContext' =
               <<[user |-> u,
                  context |-> IF user_data # <<>>
                              THEN (IF "preferences" \in DOMAIN user_data[1]
                                    THEN user_data[1].preferences ELSE {})
                              ELSE {}]>>
    /\ UNCHANGED <<memvars, brainvars, confvars, llmvars, concvars, patvars,
                   satisfaction_score, lastStats, lastLoad, inflight, lastPrompt,
                   lastSignal>>

(* MemoryManager.get_storage_stats: the availability each registered provider
   reports, as (tier, available) pairs, and the health classification *)
StorageStats ==
    [providers |-> {<<"HOT", TRUE>>}
                   \cup (IF warm # "absent" THEN {<<"WARM", warm = "up">>} ELSE {})
                   \cup (IF cold # "absent" THEN {<<"COLD", cold = "up">>} ELSE {}),
     health |-> IF warm = "absent" THEN "degraded" ELSE "healthy"]

GetStorageStats ==
    /\ lastStats' = <<StorageStats>>
    /\ UNCHANGED <<memvars, brainvars, confvars, llmvars, concvars, patvars,
                   satisfaction_score, lastContext, lastLoad, inflight, lastPrompt,
                   lastSignal>>

NextContext ==
    \/ \E u \in Users, prefs \in Preferences : SaveUserContext(u, prefs)
    \/ \E u \in Users : GetUserContext(u)
    \/ GetStorageStats
    \/ Tick

SpecContext == InitMem /\ [][NextContext]_vars

(* C24: when WARM works and holds a context document of the user,
   get_user_context returns the preferences of that document. *)
C24_ContextRoundTrip ==
    (lastContext # <<>> /\ warm = "up") =>
        \A d \in warm_docs :
            (d.type = "user_context" /\ d.userId = lastContext[1].user)
            => lastContext[1].context = d.preferences

(* C25: get_storage_stats lists every registered tier with the availability
   its provider reports, and the health is healthy exactly when a WARM tier is
   registered and its backing service was reached. *)
C25_HealthFollowsWarm ==
    lastStats # <<>> =>
        /\ <<"HOT", TRUE>> \in lastStats[1].providers
        /\ \A a \in BOOLEAN :
               /\ <<"WARM", a>> \in lastStats[1].providers
                      <=> (warm # "absent" /\ a = (warm = "up"))
               /\ <<"COLD", a>> \in lastStats[1].providers
                      <=> (cold # "absent" /\ a = (cold = "up"))
        /\ lastStats[1].health = (IF warm = "up" THEN "healthy" ELSE "degraded")

----------------------------------------------------------------------------
(* The storage providers called one operation at a time *)

Keys == {StorageKey(u, s) : u \in Users, s \in 1..MaxSaves}

RamLoad(storage, timestamps, key, t) ==
    IF key \in DOMAIN timestamps /\ t - timestamps[key] > HotTtl
    THEN [timestamps |-> [k \in DOMAIN timestamps \ {key} |-> timestamps[k]],
          result |-> <<>>]
    ELSE LET found == {storage[u][i].data : <<u, i>> \in
                          {p \in (DOMAIN storage) \X (1..HotMaxItems + 1) :
                              /\ p[2] <= Len(storage[p[1]])
                              /\ storage[p[1]][p[2]].key = key}}
         IN [timestamps |-> timestamps,
             result |-> IF found = {} THEN <<>> ELSE <<CHOOSE d \in found : TRUE>>]

RamDelete(storage, timestamps, key) ==
    LET holders == {u \in DOMAIN storage :
                        \E i \in 1..Len(storage[u]) : storage[u][i].key = key}
        Without(s) == LET i == CHOOSE i \in 1..Len(s) :
                                  /\ s[i].key = key
                                  /\ \A j \in 1..(i - 1) : s[j].key # key
                      IN SubSeq(s, 1, i - 1) \o SubSeq(s, i + 1, Len(s))
    IN [storage |-> [u \in DOMAIN storage |->
                        IF u \in holders THEN Without(storage[u]) ELSE storage[u]],
        timestamps |-> [k \in DOMAIN timestamps \ {key} |-> timestamps[k]],
        ok |-> holders # {}]

SavedBy(tier, key, data, ok) ==
    <<[tier |-> tier, key |-> key, data |-> data, ok |-> ok, fresh |-> TRUE]>>

RamSaveOp(u, m) ==
    /\ seq <= MaxSaves
    /\ LET data == ConversationData(u, m, "r", [confidence |-> DefaultImportance])
           s == RamSave(hot_storage, hot_timestamps, StorageKey(u, seq), data, now)
       IN /\ hot_storage' = s.storage
          /\ hot_timestamps' = s.timestamps
          /\ lastSave' = SavedBy("HOT", StorageKey(u, seq), data, s.ok)
    /\ seq' = seq + 1
    /\ lastLoad' = <<>>
    /\ UNCHANGED <<now, warm, cold, warm_docs, cold_blobs, lastGet,
                   brainvars, confvars, llmvars, concvars, patvars,
                   satisfaction_score, lastContext, lastStats, inflight,
                   lastPrompt, lastSignal>>

RamLoadOp(key) ==
    /\ LET l == RamLoad(hot_storage, hot_timestamps, key, now)
       IN /\ hot_timestamps' = l.timestamps
          /\ lastLoad' = <<[tier |-> "HOT", key |-> key, at |-> now, result |-> l.result]>>
    /\ UNCHANGED <<now, seq, warm, cold, hot_storage, warm_docs, cold_blobs, lastSave,
                   lastGet, brainvars, confvars, llmvars, concvars, patvars,
                   satisfaction_score, lastContext, lastStats, inflight,
                   lastPrompt, lastSignal>>

RamSearchOp(u, limit) ==
    /\ lastGet' = <<[user |-> u, limit |-> limit,
                     results |-> RamSearch(hot_storage, u, limit, now)]>>
    /\ UNCHANGED <<now, seq, warm, cold, hot_storage, hot_timestamps, warm_docs,
                   cold_blobs, lastSave, brainvars, confvars, llmvars, concvars,
                   patvars, opvars>>

RamDeleteOp(key) ==
    /\ LET d == RamDelete(hot_storage, hot_timestamps, key)
       IN /\ hot_storage' = d.storage
          /\ hot_timestamps' = d.timestamps
    /\ lastSave' = <<>>
    /\ UNCHANGED <<now, seq, warm, cold, warm_docs, cold_blobs, lastGet,
                   brainvars, confvars, llmvars, concvars, patvars, opvars>>

(* _cleanup_expired on its own: what the sweep of a save does to the timestamps *)
RamSweep ==
    /\ hot_timestamps' = CleanupExpired(hot_timestamps, now)
    /\ UNCHANGED <<now, seq, warm, cold, hot_storage, warm_docs, cold_blobs, lastSave,
                   lastGet, brainvars, confvars, llmvars, concvars, patvars, opvars>>

CosmosSaveOp(u, m) ==
    /\ seq <= MaxSaves
    /\ warm # "absent"
    /\ LET data == ConversationData(u, m, "r", [confidence |-> DefaultImportance])
           s == CosmosSave(warm_docs, warm, StorageKey(u, seq), data)
       IN /\ warm_docs' = s.docs
          /\ lastSave' = SavedBy("WARM", StorageKey(u, seq), data, s.ok)
    /\ seq' = seq + 1
    /\ lastLoad' = <<>>
    /\ UNCHANGED <<now, warm, cold, hot_storage, hot_timestamps, cold_blobs, lastGet,
                   brainvars, confvars, llmvars, concvars, patvars, satisfaction_score,
                   lastContext, lastStats, inflight, lastPrompt, lastSignal>>

CosmosLoadOp(key) ==
    /\ warm # "absent"
    /\ lastLoad' = <<[tier |-> "WARM", key |-> key, at |-> now,
                      result |-> CosmosLoad(warm_docs, warm, key)]>>
    /\ UNCHANGED <<memvars, brainvars, confvars, llmvars, concvars, patvars,
                   satisfaction_score, lastContext, lastStats, inflight,
                   lastPrompt, lastSignal>>

(* the name prefix load lists by, the text "*/*/key.json.gz" itself *)
LoadPrefix == <<"*", "/", "*", "/", "k", "e", "y", ".json.gz">>

BlobLoad(blobs, status, key) ==
    IF status # "up" THEN <<>>
    ELSE LET listed == ListBlobs({n \in DOMAIN blobs : StartsWith(n, LoadPrefix)})
             hits == SelectData(listed,
                        LAMBDA n : \E i \in 1..Len(n) :
                                      /\ i + Len(key) - 1 <= Len(n)
                                      /\ SubSeq(n, i, i + Len(key) - 1) = key)
         IN IF hits = <<>> THEN <<>> ELSE <<GunzipJson(blobs[hits[1]])>>

BlobSaveOp(u, m) ==
    /\ seq <= MaxSaves
    /\ cold # "absent"
    /\ LET data == ConversationData(u, m, "r", [confidence |-> DefaultImportance])
           s == BlobSave(cold_blobs, cold, StorageKey(u, seq), data)
       IN /\ cold_blobs' = s.blobs
          /\ lastSave' = SavedBy("COLD", StorageKey(u, seq), data, s.ok)
    /\ seq' = seq + 1
    /\ lastLoad' = <<>>
    /\ UNCHANGED <<now, warm, cold, hot_storage, hot_timestamps, warm_docs, lastGet,
                   brainvars, confvars, llmvars, concvars, patvars, satisfaction_score,
                   lastContext, lastStats, inflight, lastPrompt, lastSignal>>

BlobLoadOp(key) ==
    /\ cold # "absent"
    /\ lastLoad' = <<[tier |-> "COLD", key |-> key, at |-> now,
                      result |-> BlobLoad(cold_blobs, cold, key)]>>
    /\ UNCHANGED <<memvars, brainvars, confvars, llmvars, concvars, patvars,
                   satisfaction_score, lastContext, lastStats, inflight,
                   lastPrompt, lastSignal>>

NextProviders ==
    \/ \E u \in Users, m \in Messages : RamSaveOp(u, m)
    \/ \E key \in Keys : RamLoadOp(key)
    \/ \E u \in Users, limit \in Limits : RamSearchOp(u, limit)
    \/ \E key \in Keys : RamDeleteOp(key)
    \/ RamSweep
    \/ \E u \in Users, m \in Messages : CosmosSaveOp(u, m)
    \/ \E key \in Keys : CosmosLoadOp(key)
    \/ \E u \in Users, m \in Messages : BlobSaveOp(u, m)
    \/ \E key \in Keys : BlobLoadOp(key)
    \/ Tick

SpecProviders == InitMem /\ [][NextProviders]_vars

(* C26: a load of the HOT tier never returns the data of an item saved more than
   ttl_seconds ago, whatever saves, loads, searches, deletes and sweeps came
   before it *)
C26_NoExpiredLoad ==
    (lastLoad # <<>> /\ lastLoad[1].tier = "HOT" /\ lastLoad[1].result # <<>>)
        => lastLoad[1].at - lastLoad[1].result[1].timestamp.coarse <= HotTtl

(* C27: a turn stored in both HOT and WARM is in the result of
   get_conversation_history at most once *)
C27_NoDuplicateTurn ==
    lastGet # <<>> =>
        \A i \in 1..Len(lastGet[1].results) : \A j \in 1..Len(lastGet[1].results) :
            i < j => ~SameTurn(lastGet[1].results[i], lastGet[1].results[j])

----------------------------------------------------------------------------
(* Concurrent think calls on the one BotBrain instance: a call is suspended
   before _generate_response (learning engine, _build_context) and between
   _generate_response and _store_interaction (record_response) *)

MaxRequests == 2

ThinkBegin(r, u) ==
    /\ r \notin DOMAIN inflight
    /\ inflight' = [k \in DOMAIN inflight \cup {r} |->
                        IF k = r THEN [user |-> u, phase |-> "context",
                                       produced |-> None, recorded |-> <<>>]
                        ELSE inflight[k]]
    /\ UNCHANGED <<memvars, brainvars, confvars, llmvars, concvars, patvars,
                   satisfaction_score, lastContext, lastStats, lastLoad,
                   lastPrompt, lastSignal>>

ThinkGenerate(r, pBackend, fBackend) ==
    /\ r \in DOMAIN inflight
    /\ inflight[r].phase = "context"
    /\ \E g \in {GenerateResponse(CallProvider("generate_response", pBackend),
                                  CallProvider("generate_response", fBackend))} :
          /\ last_provider_used' = g.provider_used
          /\ inflight' = [inflight EXCEPT ![r].phase = "generated",
                                          ![r].produced = g.provider_used]
    /\ UNCHANGED <<memvars, primary_provider, fallback_provider, lastThink, lastReply,
                   confvars, llmvars, concvars, patvars, satisfaction_score,
                   lastContext, lastStats, lastLoad, lastPrompt, lastSignal>>

ThinkStore(r, m) ==
    /\ r \in DOMAIN inflight
    /\ inflight[r].phase = "generated"
    /\ seq <= MaxSaves
    /\ \E s \in {StoreInteraction(inflight[r].user, m, StaticResponse,
                                  CalculateConfidence(StaticResponse))} :
          /\ hot_storage' = s.hot_storage
          /\ hot_timestamps' = s.hot_timestamps
          /\ warm_docs' = s.warm_docs
          /\ cold_blobs' = s.cold_blobs
          /\ seq' = IF s.persisted THEN seq + 1 ELSE seq
          /\ inflight' = [inflight EXCEPT
                             ![r].phase = "done",
                             ![r].recorded = IF s.persisted THEN <<last_provider_used>>
                                             ELSE <<>>]
    /\ UNCHANGED <<now, warm, cold, lastSave, lastGet, brainvars, confvars, llmvars,
                   concvars, patvars, satisfaction_score, lastContext, lastStats,
                   lastLoad, lastPrompt, lastSignal>>

NextConcurrent ==
    \/ \E r \in 1..MaxRequests, u \in Users : ThinkBegin(r, u)
    \/ \E r \in 1..MaxRequests, pB \in BackendOutcomes, fB \in BackendOutcomes :
          ThinkGenerate(r, pB, fB)
    \/ \E r \in 1..MaxRequests, m \in Messages : ThinkStore(r, m)

SpecConcurrent == InitBrain /\ [][NextConcurrent]_vars

(* C28: the provider recorded with a persisted turn is the provider that
   produced that turn's response, however the think calls interleave *)
C28_ProviderOfOwnResponse ==
    \A r \in DOMAIN inflight :
        inflight[r].recorded # <<>> => inflight[r].recorded[1] = inflight[r].produced

(* no think call persists a turn, and every response is the static one *)
C28_NothingRecorded ==
    /\ \A r \in DOMAIN inflight : inflight[r].recorded = <<>>
    /\ last_provider_used \in {None, "static"}
    /\ hot_storage = <<>>

LoadedUser(x) == IF "user_id" \in DOMAIN x THEN x.user_id ELSE x.userId

(* C29: in every tier, a load of the key of an item just saved with success
   by an available provider returns the saved turn: same user, message,
   response and timestamp *)
C29_SaveLoadRoundTrip ==
    (/\ lastLoad # <<>>
     /\ lastSave # <<>>
     /\ lastSave[1].ok
     /\ lastSave[1].fresh
     /\ lastSave[1].tier = lastLoad[1].tier
     /\ lastSave[1].key = lastLoad[1].key)
    => /\ lastLoad[1].result # <<>>
       /\ LoadedUser(lastLoad[1].result[1]) = lastSave[1].data.user_id
       /\ SameTurn(lastLoad[1].result[1], lastSave[1].data)

----------------------------------------------------------------------------
(* The prior-turns section of _build_enhanced_prompt_with_learning, for every
   history get_conversation_history(user_id, limit=5) can hand to it *)

PromptTurns == 3

HistoryTurn(k) ==
    [user_id |-> UserA, message |-> "oi", response |-> "r",
     timestamp |-> [coarse |-> 0, fine |-> k],
     metadata |-> [confidence |-> DefaultImportance]]

(* the histories of at most 5 turns, newest first as the manager sorts them *)
PromptHistories ==
    {OrderByTimestampDesc({HistoryTurn(k) : k \in S}) : S \in SUBSET (1..HistoryLimit)}

(* conversation_history[-3:], one entry per turn with the two lines built for it *)
HistorySection(history) ==
    LET first == IF Len(history) > PromptTurns THEN Len(history) - PromptTurns + 1 ELSE 1
        last3 == SubSeq(history, first, Len(history))
    IN [i \in 1..Len(last3) |->
           [turn |-> last3[i],
            user |-> MetaGet(last3[i], "user", "N/A"),
            assistant |-> MetaGet(last3[i], "assistant", "N/A")]]

BuildPrompt(history) ==
    /\ lastPrompt' = <<[history |-> history, section |-> HistorySection(history)]>>
    /\ UNCHANGED <<memvars, brainvars, confvars, llmvars, concvars, patvars,
                   satisfaction_score, lastContext, lastStats, lastLoad, inflight,
                   lastSignal>>

NextPrompt == \E history \in PromptHistories : BuildPrompt(history)

SpecPrompt == InitBrain /\ [][NextPrompt]_vars

(* C30: the prior-turns section holds at most 3 turns, and when the retrieved
   history has more than 3 turns they are the 3 with the latest timestamps,
   most recent first *)
C30_MostRecentTurns ==
    lastPrompt # <<>> =>
        LET history == lastPrompt[1].history
            section == lastPrompt[1].section
        IN /\ Len(section) <= PromptTurns
           /\ Len(history) > PromptTurns =>
                  [i \in 1..Len(section) |-> section[i].turn] = Take(history, PromptTurns)

====
